---- MODULE Spec2Model ----
(***************************************************************************)
(* Model of the URL shortener of src/src/index.tsx: one Workers KV         *)
(* namespace shared by the short links (key -> url) and by the history     *)
(* (one JSON array under HISTORY_KEY), and the request handlers that read  *)
(* and write it.  Every `await` on a KV operation is one atomic step of    *)
(* the handler, so handlers of different requests interleave between the   *)
(* steps.  A KV operation that throws is modelled as having had no effect  *)
(* on the namespace.                                                       *)
(***************************************************************************)
EXTENDS Integers, Sequences, FiniteSets, TLC

(* ------------------------------ bounds -------------------------------- *)
\* total number of requests handled in one run
MaxRequests == 2
\* the values new Date() can return are 1..MaxClock
MaxClock == 2
\* the capacity of the history, which is 500 in the source
HistoryMax == 2

\* the request handlers that can be in flight at the same time
Procs == { 1, 2 }

(* --------------------------- input domains ---------------------------- *)
\* the 28 characters that follow the first group of a UUID
UUIDTail ==
  << "-", "4", "b", "1", "d", "-", "4", "c", "7", "e", "-", "9", "a", "0", "f",
     "-", "3", "e", "5", "d", "6", "c", "7", "b", "8", "a", "9", "0" >>

\* values crypto.randomUUID() returns in the model; the first and the last
\* differ only after the sixth character
UUIDs ==
  { << "0", "a", "3", "f", "9", "1", "c", "2" >> \o UUIDTail,
    << "7", "e", "5", "0", "b", "d", "4", "4" >> \o UUIDTail,
    << "c", "2", "8", "8", "a", "6", "0", "f" >> \o UUIDTail,
    << "0", "a", "3", "f", "9", "1", "e", "7" >> \o UUIDTail }

\* urls the zod validator lets through (z.string().url())
Urls == { "https://example.com/a", "https://example.com/b?q=1#frag" }

Alnum ==
  { "0", "1", "2", "3", "4", "5", "6", "7", "8", "9",
    "a", "b", "c", "d", "e", "f", "g", "h", "i", "j", "k", "l", "m",
    "n", "o", "p", "q", "r", "s", "t", "u", "v", "w", "x", "y", "z" }

(* --------------------------- pure functions --------------------------- *)
Min(a, b) == IF a < b THEN a ELSE b

\* String.prototype.substring(from, to) on a string held as a tuple of chars
substring(s, from, to) == SubSeq(s, from + 1, Min(to, Len(s)))

HISTORY_KEY == << "_", "_", "h", "i", "s", "t", "o", "r", "y", "_", "_" >>

\* a key that takes in the hyphen after the first group of the uuid
KeyOfUUID_Long(uuid) == substring(uuid, 0, 9)

\* the 6 leading characters of a UUID
KeyOfUUID(uuid) == substring(uuid, 0, 6)

Codes == { KeyOfUUID(u) : u \in UUIDs }

\* every key a request can name
Keys == Codes \cup { HISTORY_KEY }

\* a route with no pattern on its parameter, '/:key'
RouteMatches_Any(k) == Len(k) > 0

\* the route pattern '/:key{[0-9a-z]{6}}'
RouteMatches(k) == Len(k) = 6 /\ \A i \in 1..Len(k) : k[i] \in Alnum

\* values of the KV namespace: kv.get gives null, or the stored string.  A
\* stored string is a plain text or the JSON text of an array of items.
Null == [kind |-> "null"]
Text(s) == [kind |-> "text", s |-> s]

\* JSON.stringify(list)
JSONStringify(list) == [kind |-> "json", arr |-> list]

\* JSON.parse(json) succeeds
Parses(v) == v.kind = "json"

\* JSON.parse(json), when it succeeds
JSONParse(v) == v.arr

\* the truthiness test `if (json)` / `if (!result)`
Truthy(v) == v.kind = "json" \/ (v.kind = "text" /\ v.s # "")

\* the item added at the tail, as list.push(item) does
unshift_Push(list, item) == list \o << item >>

\* list.unshift(item)
unshift(list, item) == << item >> \o list

\* a slice that keeps the tail of the list, as list.slice(-n) does
slice_Tail(list, n) == SubSeq(list, Len(list) - Min(n, Len(list)) + 1, Len(list))

\* list.slice(0, n)
slice(list, n) == SubSeq(list, 1, Min(n, Len(list)))

\* a removal that finds the first item of the key and splices it out
filter_Splice(list, keyToRemove) ==
  LET found == { i \in 1..Len(list) : list[i].key = keyToRemove }
  IN  IF found = {} THEN list
      ELSE LET first == CHOOSE i \in found : \A j \in found : i <= j
           IN  SubSeq(list, 1, first - 1) \o SubSeq(list, first + 1, Len(list))

\* a filter with the test turned round, item.key === keyToRemove
filter_Same(list, keyToRemove) == SelectSeq(list, LAMBDA item : item.key = keyToRemove)

\* list.filter((item) => item.key !== keyToRemove)
filter(list, keyToRemove) == SelectSeq(list, LAMBDA item : item.key # keyToRemove)

\* the HistoryItem the create handler builds
HistoryItem(key, url, createdAt) == [key |-> key, url |-> url, createdAt |-> createdAt]

\* an addToHistory that, when the list holds an item of the key, overwrites
\* that item where it stands
AddedList_Upsert(json, item) ==
  LET list0 == IF Truthy(json) /\ Parses(json) THEN JSONParse(json) ELSE << >>
      list1 == IF \E i \in 1..Len(list0) : list0[i].key = item.key
                 THEN [i \in 1..Len(list0) |->
                         IF list0[i].key = item.key THEN item ELSE list0[i]]
                 ELSE unshift(list0, item)
  IN  IF Len(list1) > HistoryMax THEN slice(list1, HistoryMax) ELSE list1

\* addToHistory truncating one item too late, list.slice(0, 501)
AddedList_OffByOne(json, item) ==
  LET list0 == IF Truthy(json) /\ Parses(json) THEN JSONParse(json) ELSE << >>
      list1 == unshift(list0, item)
  IN  IF Len(list1) > HistoryMax THEN slice(list1, HistoryMax + 1) ELSE list1

\* addToHistory between its get and its put: parse (or []), unshift, truncate
AddedList(json, item) ==
  LET list0 == IF Truthy(json) /\ Parses(json) THEN JSONParse(json) ELSE << >>
      list1 == unshift(list0, item)
  IN  IF Len(list1) > HistoryMax THEN slice(list1, HistoryMax) ELSE list1

\* getHistory on the value read from the namespace
getHistory(json) ==
  IF ~Truthy(json) THEN << >>
  ELSE IF Parses(json) THEN JSONParse(json) ELSE << >>

(* ------------------------------- state -------------------------------- *)
VARIABLES
  kv,        \* the KV namespace: Keys -> stored value or Null
  now,       \* the wall clock new Date() reads
  pc,        \* position of each handler
  url,       \* create: the validated form field
  key,       \* create: the candidate key; delete: the path parameter
  item,      \* create: the HistoryItem passed to addToHistory
  json,      \* addToHistory / removeFromHistory: the value read from the namespace
  did,       \* the writes and the history reads the request has performed
  alone,     \* no other create or delete has been in flight during this request
  last,      \* what the step just taken let out: the response sent, its
             \* request, and whether a KV operation threw
  nreq,      \* number of requests started
  run,       \* "creates": so far creates only, one after another;
             \* "sequential": creates and deletes, one after another; else "any"
  faulted,   \* some KV operation has thrown
  seqLog     \* the items of the completed creates, while run = "creates"

vars ==
  << kv, now, pc, url, key, item, json, did, alone, last, nreq, run, faulted, seqLog >>

NoKey == << >>
NoUrl == ""
NoItem == HistoryItem(NoKey, NoUrl, 0)

Response(kind, k, v) == [kind |-> kind, key |-> k, val |-> v]
NoResp == Response("none", NoKey, Null)

Request(op, u, k) == [op |-> op, url |-> u, key |-> k]
NoReq == Request("none", NoUrl, NoKey)

\* a performed KV operation; hit: the key held a value before it
Op(op, k, hit) == [op |-> op, key |-> k, hit |-> hit]

\* a step that lets nothing out
Nothing == [resp |-> NoResp, req |-> NoReq, alone |-> TRUE, threw |-> FALSE, did |-> << >>]

InFlight(p) == pc[p] # "idle"

\* some other create or delete is in flight
Overlaps(p) == \E r \in Procs \ {p} : InFlight(r)

\* the namespace is empty, or holds what one create, handled alone before the
\* run, has left in it: a link and its history item
FirstItem ==
  HistoryItem(KeyOfUUID(CHOOSE u \in UUIDs : u[1] = "7"), "https://example.com/a", 1)

Stored(items) ==
  [k \in Keys |->
     IF k = HISTORY_KEY
       THEN IF items = << >> THEN Null ELSE JSONStringify(items)
       ELSE IF \E i \in 1..Len(items) : items[i].key = k
              THEN Text((CHOOSE it \in { items[i] : i \in 1..Len(items) } : it.key = k).url)
              ELSE Null]

Init ==
  /\ seqLog \in { << >>, << FirstItem >> }
  /\ kv = Stored(seqLog)
  /\ now = 1
  /\ pc = [p \in Procs |-> "idle"]
  /\ url = [p \in Procs |-> NoUrl]
  /\ key = [p \in Procs |-> NoKey]
  /\ item = [p \in Procs |-> NoItem]
  /\ json = [p \in Procs |-> Null]
  /\ did = [p \in Procs |-> << >>]
  /\ alone = [p \in Procs |-> TRUE]
  /\ last = Nothing
  /\ nreq = 0
  /\ run = "creates"
  /\ faulted = FALSE

(* ------------------------ bookkeeping of a run ------------------------ *)
\* a create or delete request arrives at an idle handler; the handlers are
\* interchangeable, so the request takes the first idle one
Arrive(p, firstStep, u, k) ==
  /\ pc[p] = "idle"
  /\ \A q \in Procs : q < p => pc[q] # "idle"
  /\ nreq < MaxRequests
  /\ nreq' = nreq + 1
  /\ pc' = [pc EXCEPT ![p] = firstStep]
  /\ url' = [url EXCEPT ![p] = u]
  /\ key' = [key EXCEPT ![p] = k]
  /\ alone' = [q \in Procs |->
                 IF q = p THEN ~Overlaps(p)
                 ELSE IF InFlight(q) THEN FALSE ELSE alone[q]]
  /\ last' = Nothing
  /\ UNCHANGED << kv, now, item, json, did, faulted >>

\* the handler p goes on to its next await
Goto(p, step) ==
  /\ pc' = [pc EXCEPT ![p] = step]
  /\ last' = Nothing
  /\ UNCHANGED << alone, nreq, run, faulted, seqLog >>

\* the handler p sends its response and becomes idle; its locals are dropped
Reply(p, op, r, threw, log) ==
  /\ pc' = [pc EXCEPT ![p] = "idle"]
  /\ last' = [resp |-> r, req |-> Request(op, url[p], key[p]), alone |-> alone[p],
              threw |-> threw, did |-> log]
  /\ url' = [url EXCEPT ![p] = NoUrl]
  /\ key' = [key EXCEPT ![p] = NoKey]
  /\ item' = [item EXCEPT ![p] = NoItem]
  /\ json' = [json EXCEPT ![p] = Null]
  /\ did' = [did EXCEPT ![p] = << >>]
  /\ alone' = [alone EXCEPT ![p] = TRUE]
  /\ faulted' = (faulted \/ threw)
  /\ UNCHANGED nreq

(* ------------------------- POST /create ------------------------------- *)
\* a catch that takes back the entry createKey has put
CreateCatch_Rollback(p) ==
  /\ Reply(p, "create", Response("error500", NoKey, Null), TRUE, did[p])
  /\ kv' = IF did[p] # << >> THEN [kv EXCEPT ![key[p]] = Null] ELSE kv
  /\ UNCHANGED << now, run, seqLog >>

\* a KV operation throws: the catch of the create handler answers 500
CreateCatch(p) ==
  /\ Reply(p, "create", Response("error500", NoKey, Null), TRUE, did[p])
  /\ UNCHANGED << kv, now, run, seqLog >>

\* the request arrives with a validated url
PostCreate(p, u) ==
  /\ Arrive(p, "createKey.get", u, NoKey)
  /\ run' = IF Overlaps(p) THEN "any" ELSE run
  /\ seqLog' = IF Overlaps(p) THEN << >> ELSE seqLog

\* createKey taking the key whatever the lookup gave
createKeyGet_NoCheck(p) ==
  /\ pc[p] = "createKey.get"
  /\ \/ \E uuid \in UUIDs :
          /\ key' = [key EXCEPT ![p] = KeyOfUUID(uuid)]
          /\ Goto(p, "createKey.put")
          /\ UNCHANGED << kv, now, url, item, json, did >>
     \/ CreateCatch(p)

\* a createKey with the test turned round, if (result): it puts under a key
\* that is taken
createKeyDraw_Taken(p, uuid) ==
  LET k == KeyOfUUID(uuid)
      result == kv[k]
  IN  /\ key' = [key EXCEPT ![p] = k]
      /\ IF Truthy(result)
           THEN Goto(p, "createKey.put")
           ELSE Goto(p, "createKey.get")
      /\ UNCHANGED << kv, now, url, item, json, did >>

\* createKey with the uuid it draws: the key is the first 6 characters, and
\* the lookup of the key decides between the put and a new call of createKey
createKeyDraw(p, uuid) ==
  LET k == KeyOfUUID(uuid)
      result == kv[k]
  IN  /\ key' = [key EXCEPT ![p] = k]
      /\ IF ~Truthy(result)
           THEN Goto(p, "createKey.put")
           ELSE Goto(p, "createKey.get")
      /\ UNCHANGED << kv, now, url, item, json, did >>

\* createKey: draw a uuid, take its first 6 characters, look the key up;
\* a key that is taken makes createKey call itself again
createKeyGet(p) ==
  /\ pc[p] = "createKey.get"
  /\ \/ \E uuid \in UUIDs : createKeyDraw(p, uuid)
     \/ CreateCatch(p)

\* createKey swallowing the error of the put and returning the key all the same
createKeyPut_Swallow(p) ==
  /\ pc[p] = "createKey.put"
  /\ \/ /\ kv' = [kv EXCEPT ![key[p]] = Text(url[p])]
        /\ did' = [did EXCEPT ![p] = Append(@, Op("put", key[p], kv[key[p]] # Null))]
        /\ Goto(p, "create.item")
        /\ UNCHANGED << now, url, key, item, json >>
     \/ /\ pc' = [pc EXCEPT ![p] = "create.item"]
        /\ last' = [Nothing EXCEPT !.threw = TRUE]
        /\ faulted' = TRUE
        /\ UNCHANGED << kv, now, url, key, item, json, did, alone, nreq, run, seqLog >>

\* a put that keeps the value of a key that has one, as a put-if-absent
\* whose outcome is not looked at
createKeyPut_KeepFirst(p) ==
  /\ pc[p] = "createKey.put"
  /\ \/ /\ kv' = IF kv[key[p]] = Null THEN [kv EXCEPT ![key[p]] = Text(url[p])] ELSE kv
        /\ did' = [did EXCEPT ![p] = Append(@, Op("put", key[p], kv[key[p]] # Null))]
        /\ Goto(p, "create.item")
        /\ UNCHANGED << now, url, key, item, json >>
     \/ CreateCatch(p)

\* createKey: store the url under the free key and return the key
createKeyPut(p) ==
  /\ pc[p] = "createKey.put"
  /\ \/ /\ kv' = [kv EXCEPT ![key[p]] = Text(url[p])]
        /\ did' = [did EXCEPT ![p] = Append(@, Op("put", key[p], kv[key[p]] # Null))]
        /\ Goto(p, "create.item")
        /\ UNCHANGED << now, url, key, item, json >>
     \/ CreateCatch(p)

\* the handler builds the history item; new Date() reads a clock that never
\* goes back
CreateItem(p) ==
  /\ pc[p] = "create.item"
  /\ \E t \in now..MaxClock :
       /\ now' = t
       /\ item' = [item EXCEPT ![p] = HistoryItem(key[p], url[p], t)]
  /\ Goto(p, "addToHistory.get")
  /\ UNCHANGED << kv, url, key, json, did >>

\* addToHistory: read the stored history
addToHistoryGet(p) ==
  /\ pc[p] = "addToHistory.get"
  /\ \/ /\ json' = [json EXCEPT ![p] = kv[HISTORY_KEY]]
        /\ did' = [did EXCEPT ![p] = Append(@, Op("get", HISTORY_KEY, kv[HISTORY_KEY] # Null))]
        /\ Goto(p, "addToHistory.put")
        /\ UNCHANGED << kv, now, url, key, item >>
     \/ CreateCatch(p)

\* an addToHistory that builds the list from the value stored at the time of
\* its put, as one atomic read-modify-write would
addToHistoryPut_Fresh(p) ==
  /\ pc[p] = "addToHistory.put"
  /\ \/ /\ kv' = [kv EXCEPT ![HISTORY_KEY] =
                    JSONStringify(AddedList(kv[HISTORY_KEY], item[p]))]
        /\ Reply(p, "create", Response("created", key[p], Null), FALSE,
                 Append(did[p], Op("put", HISTORY_KEY, kv[HISTORY_KEY] # Null)))
        /\ seqLog' = IF run = "creates" THEN Append(seqLog, item[p]) ELSE seqLog
        /\ UNCHANGED << now, run >>
     \/ CreateCatch(p)

\* an addToHistory that leaves out of the list the items whose code has no
\* entry any more at the time of its put
addToHistoryPut_LiveOnly(p) ==
  /\ pc[p] = "addToHistory.put"
  /\ \/ /\ LET live == SelectSeq(getHistory(json[p]), LAMBDA it : kv[it.key] # Null)
            IN  kv' = [kv EXCEPT ![HISTORY_KEY] =
                         JSONStringify(AddedList(JSONStringify(live), item[p]))]
        /\ Reply(p, "create", Response("created", key[p], Null), FALSE,
                 Append(did[p], Op("put", HISTORY_KEY, kv[HISTORY_KEY] # Null)))
        /\ seqLog' = IF run = "creates" THEN Append(seqLog, item[p]) ELSE seqLog
        /\ UNCHANGED << now, run >>
     \/ CreateCatch(p)

\* a handler that does not await addToHistory: it renders the page while the
\* put of the history is still to come
addToHistoryPut_NoAwait(p) ==
  /\ pc[p] = "addToHistory.put"
  /\ \/ /\ Reply(p, "create", Response("created", key[p], Null), FALSE,
                 Append(did[p], Op("put", HISTORY_KEY, kv[HISTORY_KEY] # Null)))
        /\ seqLog' = IF run = "creates" THEN Append(seqLog, item[p]) ELSE seqLog
        /\ UNCHANGED << kv, now, run >>
     \/ CreateCatch(p)

\* an addToHistory that deletes the link of every item it truncates away
addToHistoryPut_Expire(p) ==
  /\ pc[p] = "addToHistory.put"
  /\ \/ /\ LET list1 == unshift(getHistory(json[p]), item[p])
                gone == { list1[i].key : i \in (HistoryMax + 1)..Len(list1) }
            IN  kv' = [k \in Keys |->
                         IF k = HISTORY_KEY THEN JSONStringify(AddedList(json[p], item[p]))
                         ELSE IF k \in gone THEN Null ELSE kv[k]]
        /\ Reply(p, "create", Response("created", key[p], Null), FALSE,
                 Append(did[p], Op("put", HISTORY_KEY, kv[HISTORY_KEY] # Null)))
        /\ seqLog' = IF run = "creates" THEN Append(seqLog, item[p]) ELSE seqLog
        /\ UNCHANGED << now, run >>
     \/ CreateCatch(p)

\* addToHistory: write the new list back; the handler then renders the page
\* that shows the short url
addToHistoryPut(p) ==
  /\ pc[p] = "addToHistory.put"
  /\ \/ /\ kv' = [kv EXCEPT ![HISTORY_KEY] = JSONStringify(AddedList(json[p], item[p]))]
        /\ Reply(p, "create", Response("created", key[p], Null), FALSE,
                 Append(did[p], Op("put", HISTORY_KEY, kv[HISTORY_KEY] # Null)))
        /\ seqLog' = IF run = "creates" THEN Append(seqLog, item[p]) ELSE seqLog
        /\ UNCHANGED << now, run >>
     \/ CreateCatch(p)

(* ---------------------- POST /history/delete/:key --------------------- *)
\* a catch that answers { ok: true } all the same
DeleteCatch_Ok(p) ==
  /\ Reply(p, "delete", Response("ok", NoKey, Null), TRUE, did[p])
  /\ UNCHANGED << kv, now, run, seqLog >>

\* a KV operation throws: the catch of the delete handler answers
\* { ok: false, error: 'delete-failed' }
DeleteCatch(p) ==
  /\ Reply(p, "delete", Response("delete-failed", NoKey, Null), TRUE, did[p])
  /\ UNCHANGED << kv, now, run, seqLog >>

\* the request arrives; the path parameter is any key
PostDelete(p, k) ==
  /\ Arrive(p, "delete.kv", NoUrl, k)
  /\ run' = IF Overlaps(p) \/ run = "any" THEN "any" ELSE "sequential"
  /\ seqLog' = << >>

\* a handler that deletes the key and answers, with no call of
\* removeFromHistory
kvDelete_Only(p) ==
  /\ pc[p] = "delete.kv"
  /\ \/ /\ kv' = [kv EXCEPT ![key[p]] = Null]
        /\ Reply(p, "delete", Response("ok", NoKey, Null), FALSE,
                 Append(did[p], Op("delete", key[p], kv[key[p]] # Null)))
        /\ UNCHANGED << now, run, seqLog >>
     \/ DeleteCatch(p)

\* a handler that goes on to removeFromHistory when KV.delete has thrown
kvDelete_Swallow(p) ==
  /\ pc[p] = "delete.kv"
  /\ \/ /\ kv' = [kv EXCEPT ![key[p]] = Null]
        /\ did' = [did EXCEPT ![p] = Append(@, Op("delete", key[p], kv[key[p]] # Null))]
        /\ Goto(p, "removeFromHistory.get")
        /\ UNCHANGED << now, url, key, item, json >>
     \/ /\ pc' = [pc EXCEPT ![p] = "removeFromHistory.get"]
        /\ last' = [Nothing EXCEPT !.threw = TRUE]
        /\ faulted' = TRUE
        /\ UNCHANGED << kv, now, url, key, item, json, did, alone, nreq, run, seqLog >>

\* c.env.KV.delete(key)
kvDelete(p) ==
  /\ pc[p] = "delete.kv"
  /\ \/ /\ kv' = [kv EXCEPT ![key[p]] = Null]
        /\ did' = [did EXCEPT ![p] = Append(@, Op("delete", key[p], kv[key[p]] # Null))]
        /\ Goto(p, "removeFromHistory.get")
        /\ UNCHANGED << now, url, key, item, json >>
     \/ DeleteCatch(p)

\* removeFromHistory treating a history that is not stored as an error
removeFromHistoryGet_Strict(p) ==
  /\ pc[p] = "removeFromHistory.get"
  /\ \/ /\ IF Truthy(kv[HISTORY_KEY]) /\ Parses(kv[HISTORY_KEY])
             THEN /\ json' = [json EXCEPT ![p] = kv[HISTORY_KEY]]
                  /\ did' = [did EXCEPT ![p] = Append(@, Op("get", HISTORY_KEY, TRUE))]
                  /\ Goto(p, "removeFromHistory.put")
                  /\ UNCHANGED << url, key, item >>
             ELSE /\ Reply(p, "delete", Response("delete-failed", NoKey, Null), FALSE,
                           Append(did[p], Op("get", HISTORY_KEY, kv[HISTORY_KEY] # Null)))
                  /\ UNCHANGED << run, seqLog >>
        /\ UNCHANGED << kv, now >>
     \/ DeleteCatch(p)

\* removeFromHistory: read the stored history; nothing stored or nothing
\* parseable returns at once, and the handler answers { ok: true }
removeFromHistoryGet(p) ==
  /\ pc[p] = "removeFromHistory.get"
  /\ \/ /\ IF Truthy(kv[HISTORY_KEY]) /\ Parses(kv[HISTORY_KEY])
             THEN /\ json' = [json EXCEPT ![p] = kv[HISTORY_KEY]]
                  /\ did' = [did EXCEPT ![p] = Append(@, Op("get", HISTORY_KEY, TRUE))]
                  /\ Goto(p, "removeFromHistory.put")
                  /\ UNCHANGED << url, key, item >>
             ELSE /\ Reply(p, "delete", Response("ok", NoKey, Null), FALSE,
                           Append(did[p], Op("get", HISTORY_KEY, kv[HISTORY_KEY] # Null)))
                  /\ UNCHANGED << run, seqLog >>
        /\ UNCHANGED << kv, now >>
     \/ DeleteCatch(p)

\* removeFromHistory writing back the list it has read, not the filtered one
removeFromHistoryPut_Unfiltered(p) ==
  /\ pc[p] = "removeFromHistory.put"
  /\ \/ /\ kv' = [kv EXCEPT ![HISTORY_KEY] = JSONStringify(JSONParse(json[p]))]
        /\ Reply(p, "delete", Response("ok", NoKey, Null), FALSE,
                 Append(did[p], Op("put", HISTORY_KEY, kv[HISTORY_KEY] # Null)))
        /\ UNCHANGED << now, run, seqLog >>
     \/ DeleteCatch(p)

\* removeFromHistory: write the filtered list back; the handler answers
\* { ok: true }
removeFromHistoryPut(p) ==
  /\ pc[p] = "removeFromHistory.put"
  /\ \/ /\ kv' = [kv EXCEPT ![HISTORY_KEY] =
                    JSONStringify(filter(JSONParse(json[p]), key[p]))]
        /\ Reply(p, "delete", Response("ok", NoKey, Null), FALSE,
                 Append(did[p], Op("put", HISTORY_KEY, kv[HISTORY_KEY] # Null)))
        /\ UNCHANGED << now, run, seqLog >>
     \/ DeleteCatch(p)

(* ------------------------------ reads --------------------------------- *)
\* a handler that lets a missing entry end in the error page
Redirect_Throw(k, v) ==
  IF v = Null THEN Response("error500", NoKey, Null) ELSE Response("redirect", k, v)

\* what GET /:key answers on the value kv.get gave
Redirect(k, v) ==
  IF v = Null THEN Response("notfound", k, Null) ELSE Response("redirect", k, v)

\* a read that stores the history it has parsed
Read_Normalise(p, op, k, r, threw) ==
  /\ pc[p] = "idle"
  /\ \A q \in Procs : q < p => pc[q] # "idle"
  /\ nreq < MaxRequests
  /\ nreq' = nreq + 1
  /\ last' = [resp |-> r, req |-> Request(op, NoUrl, k), alone |-> ~Overlaps(p),
              threw |-> threw, did |-> << >>]
  /\ faulted' = (faulted \/ threw)
  /\ kv' = [kv EXCEPT ![HISTORY_KEY] = JSONStringify(getHistory(kv[HISTORY_KEY]))]
  /\ UNCHANGED << now, pc, url, key, item, json, did, alone, run, seqLog >>

\* a read request at an idle handler: one kv.get, answered at once
Read(p, op, k, r, threw) ==
  /\ pc[p] = "idle"
  /\ \A q \in Procs : q < p => pc[q] # "idle"
  /\ nreq < MaxRequests
  /\ nreq' = nreq + 1
  /\ last' = [resp |-> r, req |-> Request(op, NoUrl, k), alone |-> ~Overlaps(p),
              threw |-> threw, did |-> << >>]
  /\ faulted' = (faulted \/ threw)
  /\ UNCHANGED << kv, now, pc, url, key, item, json, did, alone, run, seqLog >>

\* GET /:key for a key the route pattern accepts; a kv.get that throws ends
\* in app.onError
GetKey(p, k) ==
  /\ RouteMatches(k)
  /\ \/ Read(p, "resolve", k, Redirect(k, kv[k]), FALSE)
     \/ Read(p, "resolve", k, Response("error500", NoKey, Null), TRUE)

\* a page whose getHistory has no catch round JSON.parse: a value that does
\* not parse ends in the error page
GetHistoryPage_NoCatch(p) ==
  \/ Read(p, "list", NoKey,
          IF Truthy(kv[HISTORY_KEY]) /\ ~Parses(kv[HISTORY_KEY])
            THEN Response("error500", NoKey, Null)
            ELSE Response("list", NoKey, JSONStringify(getHistory(kv[HISTORY_KEY]))),
          FALSE)
  \/ Read(p, "list", NoKey, Response("error500", NoKey, Null), TRUE)

\* GET /history: the page lists getHistory
GetHistoryPage(p) ==
  \/ Read(p, "list", NoKey,
          Response("list", NoKey, JSONStringify(getHistory(kv[HISTORY_KEY]))), FALSE)
  \/ Read(p, "list", NoKey, Response("error500", NoKey, Null), TRUE)

(* --------------------------- specification ---------------------------- *)
Next ==
  \E p \in Procs :
    \/ \E u \in Urls : PostCreate(p, u)
    \/ createKeyGet(p)
    \/ createKeyPut(p)
    \/ CreateItem(p)
    \/ addToHistoryGet(p)
    \/ addToHistoryPut(p)
    \/ \E k \in Keys : PostDelete(p, k)
    \/ kvDelete(p)
    \/ removeFromHistoryGet(p)
    \/ removeFromHistoryPut(p)
    \/ \E k \in Keys : GetKey(p, k)
    \/ GetHistoryPage(p)

Spec == Init /\ [][Next]_vars

\* the namespace holds, under HISTORY_KEY, a text JSON.parse rejects; the
\* handlers are the same
Corrupt == Text("[{\"key\":")

InitCorrupt ==
  /\ \E links \in { << >>, << FirstItem >> } :
       kv = [Stored(links) EXCEPT ![HISTORY_KEY] = Corrupt]
  /\ seqLog = << >>
  /\ now = 1
  /\ pc = [p \in Procs |-> "idle"]
  /\ url = [p \in Procs |-> NoUrl]
  /\ key = [p \in Procs |-> NoKey]
  /\ item = [p \in Procs |-> NoItem]
  /\ json = [p \in Procs |-> Null]
  /\ did = [p \in Procs |-> << >>]
  /\ alone = [p \in Procs |-> TRUE]
  /\ last = Nothing
  /\ nreq = 0
  /\ run = "any"
  /\ faulted = FALSE

SpecCorrupt == InitCorrupt /\ [][Next]_vars

\* what addToHistory leaves under HISTORY_KEY after it has been called for
\* the items one after another, from a namespace with no history
RECURSIVE Appended(_)
Appended(items) ==
  IF items = << >> THEN Null
  ELSE JSONStringify(AddedList(Appended(SubSeq(items, 1, Len(items) - 1)),
                               items[Len(items)]))

\* creates handled before the run have taken every code there is
FullLog ==
  << FirstItem,
     HistoryItem(KeyOfUUID(CHOOSE u \in UUIDs : u[1] = "0"), "https://example.com/b?q=1#frag", 1),
     HistoryItem(KeyOfUUID(CHOOSE u \in UUIDs : u[1] = "c"), "https://example.com/a", 1) >>

InitFull ==
  /\ kv = [Stored(FullLog) EXCEPT ![HISTORY_KEY] = Appended(FullLog)]
  /\ seqLog = << >>
  /\ now = 1
  /\ pc = [p \in Procs |-> "idle"]
  /\ url = [p \in Procs |-> NoUrl]
  /\ key = [p \in Procs |-> NoKey]
  /\ item = [p \in Procs |-> NoItem]
  /\ json = [p \in Procs |-> Null]
  /\ did = [p \in Procs |-> << >>]
  /\ alone = [p \in Procs |-> TRUE]
  /\ last = Nothing
  /\ nreq = 0
  /\ run = "any"
  /\ faulted = FALSE

\* two creates with different urls, overlapping before the run, have drawn
\* the same key and both found it absent: the key holds the url of the later
\* put, and the history an item of each
DupLog ==
  << HistoryItem(KeyOfUUID(CHOOSE u \in UUIDs : u[1] = "0"), "https://example.com/a", 1),
     HistoryItem(KeyOfUUID(CHOOSE u \in UUIDs : u[1] = "0"), "https://example.com/b?q=1#frag", 1) >>

InitDup ==
  /\ kv = [k \in Keys |->
             IF k = HISTORY_KEY THEN Appended(DupLog)
             ELSE IF k = DupLog[2].key THEN Text(DupLog[2].url) ELSE Null]
  /\ seqLog = << >>
  /\ now = 1
  /\ pc = [p \in Procs |-> "idle"]
  /\ url = [p \in Procs |-> NoUrl]
  /\ key = [p \in Procs |-> NoKey]
  /\ item = [p \in Procs |-> NoItem]
  /\ json = [p \in Procs |-> Null]
  /\ did = [p \in Procs |-> << >>]
  /\ alone = [p \in Procs |-> TRUE]
  /\ last = Nothing
  /\ nreq = 0
  /\ run = "any"
  /\ faulted = FALSE

SpecDup == InitDup /\ [][Next]_vars

\* a step of the handler p of a create or delete in flight
Step(p) ==
  \/ createKeyGet(p)
  \/ createKeyPut(p)
  \/ CreateItem(p)
  \/ addToHistoryGet(p)
  \/ addToHistoryPut(p)
  \/ kvDelete(p)
  \/ removeFromHistoryGet(p)
  \/ removeFromHistoryPut(p)

\* the runtime resumes every pending handler, and crypto.randomUUID() gives
\* every value again and again; no request has to arrive, and no KV operation
\* has to throw
Fairness ==
  \A p \in Procs :
    /\ WF_vars(Step(p))
    /\ \A uuid \in UUIDs : SF_vars(pc[p] = "createKey.get" /\ createKeyDraw(p, uuid))

FairSpec == InitFull /\ [][Next]_vars /\ Fairness

(* ------------------------- views of the state ------------------------- *)
\* what list() gives in the current state
History == getHistory(kv[HISTORY_KEY])

\* the code has an entry in the link store
Live(k) == kv[k] # Null

\* the history holds a record of the code
Recorded(k) == \E i \in 1..Len(History) : History[i].key = k

\* a code of 6 characters over [0-9a-z]
ShortCode(k) == Len(k) = 6 /\ \A i \in 1..6 : k[i] \in Alnum

\* the step just taken answered a request of this kind, successfully
Answered(op) == last.req.op = op /\ last.resp.kind \in { "created", "ok" }

(* ------------------------------ claims -------------------------------- *)
\* C1: a create that no other request overlapped answers with a code of 6
\* characters over [0-9a-z], and a resolve of that code in the state reached
\* redirects to exactly the url that was submitted.
C1_RoundTrip ==
  (Answered("create") /\ last.alone) =>
     /\ ShortCode(last.resp.key)
     /\ RouteMatches(last.resp.key)
     /\ Redirect(last.resp.key, kv[last.resp.key])
          = Response("redirect", last.resp.key, Text(last.req.url))

C1_Witness ==
  /\ Answered("create") /\ last.alone
  /\ last.req.url = "https://example.com/b?q=1#frag"
  /\ \E k \in Codes \ { last.resp.key } : Live(k)

\* C2: a create that no other request overlaps never puts its url under a
\* code that is live, and the codes returned by creates handled one after
\* another, with no deletion, are pairwise distinct.
C2_Unique ==
  /\ \A p \in Procs : (pc[p] = "createKey.put" /\ alone[p]) => ~Live(key[p])
  /\ (Answered("create") /\ last.alone) => ~last.did[1].hit
  /\ run = "creates" =>
       \A i, j \in 1..Len(seqLog) : i # j => seqLog[i].key # seqLog[j].key

C2_Witness ==
  /\ run = "creates" /\ Len(seqLog) = 3
  /\ Answered("create") /\ last.alone

\* the items of the n most recent creates of the log, newest first
Recent(log, n) == [i \in 1..Min(n, Len(log)) |-> log[Len(log) + 1 - i]]

\* C3: while creates are handled one after another from an empty history with
\* no deletion, list() gives the items of the HistoryMax most recent creates,
\* newest first; after HistoryMax + 1 creates that is exactly HistoryMax
\* items, and the item of the first create is the one missing.
C3_Eviction ==
  run = "creates" =>
     /\ History = Recent(seqLog, HistoryMax)
     /\ Len(seqLog) = HistoryMax + 1 =>
          /\ Len(History) = HistoryMax
          /\ \A i \in 1..Len(History) : History[i] = seqLog[Len(seqLog) + 1 - i]
          /\ \A i \in 1..Len(History) : History[i] # seqLog[1]

C3_Witness ==
  /\ run = "creates" /\ Len(seqLog) = HistoryMax + 1
  /\ Len(History) = HistoryMax
  /\ ~Recorded(seqLog[1].key) /\ Live(seqLog[1].key)

\* C4: in the state reached when a delete that no other request overlapped
\* answers ok, a resolve of its code gives NotFound and list() holds no item
\* of that code.
C4_DeleteConsistent ==
  (Answered("delete") /\ last.alone) =>
     /\ Redirect(last.req.key, kv[last.req.key]).kind = "notfound"
     /\ \A i \in 1..Len(History) : History[i].key # last.req.key

C4_Witness ==
  /\ Answered("delete") /\ last.alone
  /\ last.req.key \in Codes
  /\ last.did[1].hit
  /\ Len(last.did) = 3

\* the handler p of a delete takes a step
DeleteStep(p) ==
  /\ pc[p] \in { "delete.kv", "removeFromHistory.get", "removeFromHistory.put" }
  /\ pc'[p] # pc[p]

\* the code of the delete p had no entry in the link store when KV.delete
\* was called
NotLiveAtCall(p) == IF pc[p] = "delete.kv" THEN ~Live(key[p]) ELSE ~did[p][1].hit

\* C5, as claimed, of a delete that no other request overlaps: a delete of a
\* code that has no entry in the link store (deleted before, or never
\* created), during which nothing throws, answers ok and none of its steps
\* changes the link store or the history.
C5_Original ==
  [][\A p \in Procs :
       (DeleteStep(p) /\ alone[p] /\ key[p] \in Codes /\ NotLiveAtCall(p)
          /\ ~last'.threw) =>
          /\ kv' = kv
          /\ pc'[p] = "idle" => last'.resp.kind = "ok"]_vars

\* C5, amended: a delete of a code that has neither an entry in the link
\* store nor an item in the history (as after a delete of it that ran alone,
\* or for a code never created), which no other request overlaps and during
\* which nothing throws, answers ok and none of its steps changes the link
\* store or the history.
C5_Idempotent ==
  [][\A p \in Procs :
       (DeleteStep(p) /\ alone[p] /\ key[p] \in Codes
          /\ ~Live(key[p]) /\ ~Recorded(key[p]) /\ ~last'.threw) =>
          /\ kv' = kv
          /\ pc'[p] = "idle" => last'.resp.kind = "ok"]_vars

C5_Witness ==
  /\ Answered("delete") /\ last.alone
  /\ last.req.key = FirstItem.key
  /\ ~last.did[1].hit
  /\ Len(last.did) = 3
  /\ kv[HISTORY_KEY] = JSONStringify(<< >>)

\* C6: the stored history never holds more than HistoryMax items, whatever
\* the interleaving of the create and delete handlers.
C6_Bounded == Len(History) <= HistoryMax

C6_Witness ==
  /\ Answered("create") /\ ~last.alone
  /\ Len(History) = HistoryMax
  /\ ~Recorded(FirstItem.key)

\* no create or delete is in flight
Quiescent == \A p \in Procs : pc[p] = "idle"

\* every item of the history names a live code that maps to the item's url
Consistent ==
  \A i \in 1..Len(History) : kv[History[i].key] = Text(History[i].url)

\* C7, as claimed: in every quiescent state reached without a KV operation
\* throwing, whatever the interleaving, every item of the history names a
\* live code that maps to the item's url.
C7_Original == (Quiescent /\ ~faulted) => Consistent

\* C7, amended: the same, in the quiescent states reached by creates and
\* deletes handled one after another.
C7_SequentialConsistent == (Quiescent /\ ~faulted /\ run # "any") => Consistent

C7_Witness ==
  /\ Quiescent /\ ~faulted /\ run = "sequential"
  /\ Answered("delete") /\ last.did[1].hit
  /\ History # << >>

\* C8, as claimed: when KV.delete has removed the entry and the removal from
\* the history then throws, the delete answers ok.
C8_Original ==
  (last.req.op = "delete" /\ last.threw /\ last.did # << >>) => last.resp.kind = "ok"

\* C8, amended: when KV.delete has removed the entry and the removal from the
\* history then throws, the delete answers delete-failed; the step leaves the
\* namespace as it is, so the entry stays removed and the history keeps its
\* item of the code.
C8_PartialFailure ==
  [][\A p \in Procs :
       (pc[p] \in { "removeFromHistory.get", "removeFromHistory.put" }
          /\ pc'[p] # pc[p] /\ last'.threw) =>
          /\ pc'[p] = "idle"
          /\ last'.resp = Response("delete-failed", NoKey, Null)
          /\ last'.did # << >> /\ last'.did[1] = Op("delete", key[p], last'.did[1].hit)
          /\ kv' = kv
          /\ alone[p] => kv'[key[p]] = Null
          /\ kv'[HISTORY_KEY] = kv[HISTORY_KEY]]_vars

C8_Witness ==
  /\ last.req.op = "delete" /\ last.threw
  /\ last.resp.kind = "delete-failed"
  /\ last.did # << >> /\ last.did[1].hit
  /\ ~Live(last.req.key) /\ Recorded(last.req.key)

\* C9: the delete handler reads or writes the history only after KV.delete
\* of its key has been performed; when KV.delete throws, the handler answers
\* delete-failed at once, having read and written nothing, and the namespace
\* is unchanged.
C9_DeleteOrder ==
  /\ [](\A p \in Procs :
          pc[p] \in { "removeFromHistory.get", "removeFromHistory.put" } =>
             /\ did[p] # << >>
             /\ did[p][1].op = "delete" /\ did[p][1].key = key[p])
  /\ [][\A p \in Procs :
          (pc[p] = "delete.kv" /\ pc'[p] # pc[p] /\ last'.threw) =>
             /\ pc'[p] = "idle"
             /\ last'.resp = Response("delete-failed", NoKey, Null)
             /\ last'.did = << >>
             /\ kv' = kv]_vars

C9_Witness ==
  /\ last.req.op = "delete" /\ last.threw
  /\ last.resp.kind = "delete-failed"
  /\ last.did = << >>
  /\ Live(last.req.key) /\ Recorded(last.req.key)

\* C10: when the lookup or the put of createKey throws, the create answers
\* with a failure that carries no code, has put nothing and appended nothing,
\* and leaves the namespace as it is; a candidate that no other request could
\* have written stays without an entry.
C10_CreateAborts ==
  [][\A p \in Procs :
       (pc[p] \in { "createKey.get", "createKey.put" }
          /\ pc'[p] # pc[p] /\ last'.threw) =>
          /\ pc'[p] = "idle"
          /\ last'.resp = Response("error500", NoKey, Null)
          /\ last'.did = << >>
          /\ kv' = kv
          /\ (pc[p] = "createKey.put" /\ alone[p]) => kv'[key[p]] = Null]_vars

C10_Witness ==
  /\ last.req.op = "create" /\ last.threw
  /\ last.resp.kind = "error500"
  /\ last.req.key \in Codes
  /\ last.did = << >>
  /\ ~Live(last.req.key) /\ ~Recorded(last.req.key)

\* C11: when createKey has put the url under its key and addToHistory then
\* throws, at its get or at its put, the catch of the create handler leaves
\* the namespace as it is: the entry is not taken back, and a resolve of the
\* key of a create that no other request overlapped still gives the url.
C11_NoRollback ==
  [][\A p \in Procs :
       (pc[p] \in { "addToHistory.get", "addToHistory.put" }
          /\ pc'[p] # pc[p] /\ last'.threw) =>
          /\ pc'[p] = "idle"
          /\ last'.did # << >> /\ last'.did[1].op = "put" /\ last'.did[1].key = key[p]
          /\ kv' = kv
          /\ alone[p] => Redirect(key[p], kv'[key[p]])
                           = Response("redirect", key[p], Text(url[p]))]_vars

C11_Witness ==
  /\ last.req.op = "create" /\ last.threw /\ last.alone
  /\ Len(last.did) = 2 /\ last.did[1].op = "put"
  /\ kv[last.req.key] = Text(last.req.url)
  /\ ~Recorded(last.req.key)

\* C12: a resolve and a list leave every key of the namespace, links and
\* history, as it was; what a resolve answers is decided by the entry of its
\* key alone: NotFound when there is none, else the redirect to the stored
\* value, whatever the history holds.
C12_ReadsPure ==
  [][last'.req.op \in { "resolve", "list" } =>
       /\ kv' = kv
       /\ (last'.req.op = "resolve" /\ ~last'.threw) =>
            last'.resp = IF kv[last'.req.key] = Null
                           THEN Response("notfound", last'.req.key, Null)
                           ELSE Response("redirect", last'.req.key, kv[last'.req.key])
       /\ (last'.req.op = "list" /\ ~last'.threw) =>
            last'.resp.val = JSONStringify(History)]_vars

C12_Witness ==
  /\ last.req.op = "resolve" /\ last.resp.kind = "redirect"
  /\ ~Recorded(last.req.key)
  /\ History # << >>

\* C13: a resolve whose kv.get does not throw answers NotFound, and not the
\* error page, for a code that has no entry, and answers the redirect to the
\* stored url exactly when the code has an entry.
C13_NotFoundValue ==
  (last.req.op = "resolve" /\ ~last.threw) =>
     /\ ~Live(last.req.key) => last.resp = Response("notfound", last.req.key, Null)
     /\ last.resp.kind = "redirect" <=> Live(last.req.key)
     /\ last.resp.kind = "redirect" => last.resp.val = kv[last.req.key]
     /\ last.resp.kind # "error500"

C13_Witness ==
  /\ last.req.op = "resolve" /\ last.resp.kind = "notfound"
  /\ last.req.key = FirstItem.key
  /\ faulted = FALSE /\ run = "sequential"

\* the stored value is a text that does not parse
Unparseable(v) == Truthy(v) /\ ~Parses(v)

\* C14: while the value stored under HISTORY_KEY does not parse, and no KV
\* operation throws: a list answers the empty list; an addToHistory that has
\* read it stores exactly the list of its one item and the create succeeds;
\* a removeFromHistory returns at once, the delete answers ok, and what is
\* stored still lists as empty.
C14_CorruptAsEmpty ==
  [][/\ (last'.req.op = "list" /\ ~last'.threw /\ Unparseable(kv[HISTORY_KEY])) =>
         last'.resp = Response("list", NoKey, JSONStringify(<< >>))
     /\ \A p \in Procs :
          /\ (pc[p] = "addToHistory.put" /\ pc'[p] # pc[p] /\ ~last'.threw
                /\ Unparseable(json[p])) =>
                /\ kv'[HISTORY_KEY] = JSONStringify(<< item[p] >>)
                /\ last'.resp = Response("created", key[p], Null)
          /\ (pc[p] = "removeFromHistory.get" /\ pc'[p] # pc[p] /\ ~last'.threw
                /\ Unparseable(kv[HISTORY_KEY])) =>
                /\ pc'[p] = "idle"
                /\ last'.resp = Response("ok", NoKey, Null)
                /\ kv'[HISTORY_KEY] = kv[HISTORY_KEY]
                /\ getHistory(kv'[HISTORY_KEY]) = << >>]_vars

C14_Witness ==
  /\ Answered("create") /\ nreq = 1
  /\ last.did[2] = Op("get", HISTORY_KEY, TRUE)
  /\ kv[HISTORY_KEY] = JSONStringify(<< HistoryItem(last.resp.key, last.req.url, now) >>)

\* C15: an entry of the link store goes away only by the KV.delete of a
\* delete request for its code; no step of addToHistory changes any entry of
\* the link store; and after creates handled one after another every code
\* created, the ones whose items the history has truncated away included,
\* still maps to its url.
C15_NoExpiry ==
  /\ [](run = "creates" =>
          \A i \in 1..Len(seqLog) : kv[seqLog[i].key] = Text(seqLog[i].url))
  /\ [][/\ \A k \in Codes :
            (Live(k) /\ kv'[k] = Null) =>
               \E p \in Procs : /\ pc[p] = "delete.kv" /\ key[p] = k
                                 /\ pc'[p] = "removeFromHistory.get"
        /\ \A p \in Procs :
            (pc[p] \in { "addToHistory.get", "addToHistory.put" } /\ pc'[p] # pc[p]) =>
               \A k \in Codes : kv'[k] = kv[k]]_vars

C15_Witness ==
  /\ Answered("create")
  /\ run = "creates" /\ Len(seqLog) > HistoryMax
  /\ \A i \in 1..Len(History) : History[i].key # seqLog[1].key
  /\ Redirect(seqLog[1].key, kv[seqLog[1].key]).val = Text(seqLog[1].url)

\* C16: under fair scheduling and fair draws, every create in flight ends:
\* its handler answers, with the page of the code or with the failure.
C16_CreateEnds ==
  \A p \in Procs :
    (pc[p] \in { "createKey.get", "createKey.put", "create.item",
                 "addToHistory.get", "addToHistory.put" }) ~> (pc[p] = "idle")

\* C17, as claimed: whatever the interleaving, no step changes the url of a
\* code that is live, and stays live, to a different url.
C17_Original ==
  [][\A k \in Codes : (Live(k) /\ kv'[k] # Null) => kv'[k] = kv[k]]_vars

\* C17, amended: a step changes the url of a code that is live and stays live
\* only when it is the put of a create that another request overlapped, which
\* had looked the code up before the entry was written; a create that no
\* other request overlaps never changes the url of a live code.
C17_Lifecycle ==
  [][\A k \in Codes :
       (Live(k) /\ kv'[k] # Null /\ kv'[k] # kv[k]) =>
          \E p \in Procs : /\ pc[p] = "createKey.put" /\ pc'[p] = "create.item"
                            /\ key[p] = k /\ ~alone[p]
                            /\ kv'[k] = Text(url[p])]_vars

C17_Witness ==
  \E p \in Procs :
    /\ pc[p] = "create.item" /\ ~alone[p] /\ ~did[p][1].hit
    /\ key[p] # FirstItem.key
    /\ kv[FirstItem.key] = Text(FirstItem.url)
    /\ \E q \in Procs \ {p} : pc[q] = "createKey.get" /\ key[q] = FirstItem.key

\* C18: the put of createKey stores its url under its key whatever the key
\* holds by then, leaving every other key alone, and a create that succeeds
\* answers with the key it has put; so of two creates that have both found
\* the same key absent, both answer that key and the key resolves to the url
\* of the put that came last.  The witness is the state such a pair leaves.
C18_LastPutWins ==
  [][\A p \in Procs :
       /\ (pc[p] = "createKey.put" /\ pc'[p] = "create.item") =>
            /\ Redirect(key[p], kv'[key[p]]) = Response("redirect", key[p], Text(url[p]))
            /\ \A k \in Keys \ { key[p] } : kv'[k] = kv[k]
       /\ (pc[p] = "addToHistory.put" /\ pc'[p] = "idle" /\ ~last'.threw) =>
            /\ last'.resp = Response("created", key[p], Null)
            /\ did[p][1].op = "put" /\ did[p][1].key = key[p]]_vars

C18_Witness ==
  /\ Quiescent /\ nreq = 2 /\ ~faulted
  /\ Answered("create") /\ ~last.alone
  /\ last.did[1] = Op("put", last.resp.key, TRUE)
  /\ Len(History) = 2
  /\ History[1].key = last.resp.key /\ History[2].key = last.resp.key
  /\ History[1].url # History[2].url
  /\ Redirect(last.resp.key, kv[last.resp.key]).val = Text(last.req.url)

\* C19: the list addToHistory stores is its own item followed by items of the
\* list it has read, and nothing else: an item another create has stored
\* between that read and this put is not in it.  The witness is the state
\* two overlapping creates with different codes leave from an empty
\* namespace: both have succeeded, both codes are live, and the history,
\* below its capacity, holds the item of one of them only.
C19_AppendOverwrites ==
  [][\A p \in Procs :
       (pc[p] = "addToHistory.put" /\ pc'[p] = "idle" /\ ~last'.threw) =>
          LET snapshot == getHistory(json[p])
              stored == getHistory(kv'[HISTORY_KEY])
          IN  /\ stored[1] = item[p]
              /\ \A i \in 2..Len(stored) :
                   \E j \in 1..Len(snapshot) : stored[i] = snapshot[j]]_vars

C19_Witness ==
  /\ Quiescent /\ nreq = 2 /\ ~faulted
  /\ Answered("create") /\ ~last.alone
  /\ ~Live(FirstItem.key)
  /\ Cardinality({ k \in Codes : Live(k) }) = 2
  /\ Len(History) = 1 /\ Len(History) < HistoryMax
  /\ History[1].key = last.resp.key

\* C20: the put of removeFromHistory stores a list without an item of the
\* deleted code and the delete answers ok, its KV.delete done before; the put
\* of addToHistory stores, after its own item, the items of the list it has
\* read, in their order and as many as fit, whether or not a delete has
\* removed one of them since.  The witness is the state left by a delete of a
\* recorded code and an overlapping create of another code: the delete has
\* answered ok, the code resolves to NotFound, and the history holds its item.
C20_AppendRestores ==
  [][\A p \in Procs :
       /\ (pc[p] = "removeFromHistory.put" /\ pc'[p] = "idle" /\ ~last'.threw) =>
            /\ last'.resp = Response("ok", NoKey, Null)
            /\ did[p][1].op = "delete" /\ did[p][1].key = key[p]
            /\ LET stored == getHistory(kv'[HISTORY_KEY])
               IN  \A i \in 1..Len(stored) : stored[i].key # key[p]
       /\ (pc[p] = "addToHistory.put" /\ pc'[p] = "idle" /\ ~last'.threw) =>
            LET snapshot == getHistory(json[p])
                stored == getHistory(kv'[HISTORY_KEY])
            IN  /\ Len(stored) = Min(Len(snapshot) + 1, HistoryMax)
                /\ \A j \in 1..(Len(stored) - 1) : stored[j + 1] = snapshot[j]]_vars

C20_Witness ==
  /\ Quiescent /\ nreq = 2 /\ ~faulted
  /\ Answered("create") /\ ~last.alone
  /\ last.resp.key # FirstItem.key
  /\ Redirect(FirstItem.key, kv[FirstItem.key]).kind = "notfound"
  /\ \E i \in 1..Len(History) : History[i] = FirstItem

\* no item of the list stands before an item with a later createdAt
NewestFirst(list) ==
  \A i, j \in 1..Len(list) : i < j => list[i].createdAt >= list[j].createdAt

\* C21, as claimed: in every reachable state, whatever the interleaving of
\* the creates, no item of the history stands before an item with a later
\* createdAt.
C21_Original == NewestFirst(History)

\* C21, amended: the same, in the states reached while no request has
\* overlapped another.
C21_SequentialNewestFirst == run # "any" => NewestFirst(History)

C21_Witness ==
  /\ run = "creates" /\ Answered("create")
  /\ Len(History) = 2
  /\ History[1].createdAt > History[2].createdAt

\* C22: when the put of a removeFromHistory that no other request has
\* overlapped is done, the history holds no item of the key, however many it
\* held before, and holds exactly the other items it held, in the order they
\* had.
C22_RemoveFilters ==
  [][\A p \in Procs :
       (pc[p] = "removeFromHistory.put" /\ pc'[p] = "idle" /\ ~last'.threw
          /\ alone[p]) =>
          LET before == History
              after == getHistory(kv'[HISTORY_KEY])
          IN  /\ \A i \in 1..Len(after) : after[i].key # key[p]
              /\ after = SelectSeq(before, LAMBDA it : it.key # key[p])
              /\ last'.resp = Response("ok", NoKey, Null)]_vars

C22_Witness ==
  /\ Answered("delete") /\ last.alone /\ nreq = 1
  /\ last.req.key = DupLog[1].key
  /\ Len(last.did) = 3
  /\ kv[HISTORY_KEY] = JSONStringify(<< >>)

\* the items of a list, as a set
Items(list) == { list[i] : i \in 1..Len(list) }

\* the items the stored history holds, with those of the lists the handlers
\* in flight have read from it
Held ==
  Items(History) \cup
  UNION { Items(getHistory(json[p])) :
            p \in { q \in Procs : pc[q] \in { "addToHistory.put", "removeFromHistory.put" } } }

\* C23: a create handler is past the put of its key, with its url, before it
\* builds its item and calls addToHistory; the item names that key and that
\* url; the page with the key is rendered by the very step that has stored
\* the history with the item at its head, after the put of the key and the
\* read of the history, in that order.  And an item comes to be in the
\* history, or in a list read from it, only as the item of such a create.
C23_CreateOrder ==
  /\ [](\A p \in Procs :
          /\ pc[p] \in { "create.item", "addToHistory.get", "addToHistory.put" } =>
               /\ did[p] # << >>
               /\ did[p][1].op = "put" /\ did[p][1].key = key[p]
          /\ pc[p] \in { "addToHistory.get", "addToHistory.put" } =>
               /\ item[p].key = key[p] /\ item[p].url = url[p])
  /\ [][/\ last'.resp.kind = "created" =>
            \E p \in Procs :
              /\ pc[p] = "addToHistory.put" /\ pc'[p] = "idle"
              /\ last'.resp.key = key[p]
              /\ getHistory(kv'[HISTORY_KEY]) # << >>
              /\ getHistory(kv'[HISTORY_KEY])[1] = item[p]
              /\ Len(last'.did) = 3
              /\ last'.did[1].op = "put" /\ last'.did[1].key = key[p]
              /\ last'.did[2].op = "get" /\ last'.did[2].key = HISTORY_KEY
              /\ last'.did[3].op = "put" /\ last'.did[3].key = HISTORY_KEY
        /\ \A r \in Held' :
            \/ r \in Held
            \/ \E p \in Procs : /\ pc[p] = "addToHistory.put" /\ pc'[p] = "idle"
                                  /\ r = item[p]]_vars

C23_Witness ==
  /\ Answered("create")
  /\ last.did = << Op("put", last.resp.key, FALSE), Op("get", HISTORY_KEY, TRUE),
                   Op("put", HISTORY_KEY, TRUE) >>
  /\ History[1].key = last.resp.key /\ History[1].url = last.req.url
  /\ kv[last.resp.key] = Text(last.req.url)
  /\ Len(History) = 2

\* the items of the list that name another key, in their order
Others(list, k) == SelectSeq(list, LAMBDA it : it.key # k)

\* C24: no step of a delete that no other request overlaps, whatever key the
\* request names, the name under which the history is stored included,
\* changes the entry of another code or the items the history holds of other
\* keys.
C24_DeleteLocal ==
  [][\A p \in Procs :
       (DeleteStep(p) /\ alone[p]) =>
          /\ \A k \in Codes \ { key[p] } : kv'[k] = kv[k]
          /\ Others(getHistory(kv'[HISTORY_KEY]), key[p]) = Others(History, key[p])]_vars

\* C25: the stored history changes only by three kinds of step.  The put of
\* addToHistory stores its item followed by the items of the list it has
\* read, each as it was read and in the same order, cut after HistoryMax
\* items; the put of removeFromHistory stores the items of the list it has
\* read that name another key, each as it was read and in the same order;
\* KV.delete of the name the history is stored under leaves no item.  So
\* every item the history holds is, field by field, an item some create has
\* appended.
C25_NeverMutated ==
  [][/\ \A p \in Procs :
          /\ (pc[p] = "addToHistory.put" /\ pc'[p] = "idle" /\ ~last'.threw) =>
               LET snapshot == getHistory(json[p])
                   stored == getHistory(kv'[HISTORY_KEY])
               IN  /\ Len(stored) = Min(Len(snapshot) + 1, HistoryMax)
                   /\ stored[1] = HistoryItem(key[p], url[p], item[p].createdAt)
                   /\ \A i \in 2..Len(stored) : stored[i] = snapshot[i - 1]
          /\ (pc[p] = "removeFromHistory.put" /\ pc'[p] = "idle" /\ ~last'.threw) =>
               getHistory(kv'[HISTORY_KEY]) = Others(getHistory(json[p]), key[p])
     /\ getHistory(kv'[HISTORY_KEY]) # History =>
          \E p \in Procs :
            \/ pc[p] = "addToHistory.put" /\ pc'[p] = "idle" /\ ~last'.threw
            \/ pc[p] = "removeFromHistory.put" /\ pc'[p] = "idle" /\ ~last'.threw
            \/ /\ pc[p] = "delete.kv" /\ pc'[p] = "removeFromHistory.get"
               /\ key[p] = HISTORY_KEY
               /\ getHistory(kv'[HISTORY_KEY]) = << >>]_vars

C25_Witness ==
  /\ Answered("create") /\ nreq = 2
  /\ Len(History) = 2
  /\ History[1].key = last.resp.key /\ History[1].url = last.req.url
  /\ History[2] = FirstItem
  /\ last.resp.key # FirstItem.key

\* the codes the history holds items of, and the codes that have an entry
HistoryCodes == { History[i].key : i \in 1..Len(History) }
LiveCodes == { k \in Codes : Live(k) }

\* C26: in every state between requests that have been handled one after
\* another with no KV operation throwing, every item of the history names a
\* live code that maps to the item's url; and when fewer links than
\* HistoryMax have ever been created (at most one before the run, and the
\* latest of fewer than HistoryMax requests was a delete), the codes of the
\* history are exactly the live codes.
C26_SequentialStores ==
  (Quiescent /\ run # "any" /\ ~faulted) =>
     /\ Consistent
     /\ (nreq < HistoryMax /\ last.req.op = "delete") => HistoryCodes = LiveCodes

\* no two items of the list name the same key
OnePerCode(list) == \A i, j \in 1..Len(list) : i # j => list[i].key # list[j].key

\* C27, as claimed: in every reachable state, whatever the interleaving and
\* whatever has thrown, no two items of the history name the same code.
C27_Original == OnePerCode(History)

\* C27, amended: the same, in the states reached by requests handled one
\* after another with no KV operation throwing.
C27_SequentialOnePerCode == (run # "any" /\ ~faulted) => OnePerCode(History)

C27_Witness ==
  /\ Answered("create") /\ run = "sequential" /\ ~faulted
  /\ last.resp.key = FirstItem.key
  /\ last.did[2] = Op("get", HISTORY_KEY, TRUE)
  /\ Len(History) = 1 /\ History[1].key = FirstItem.key

\* C28: the put of createKey writes under a key of 6 characters over
\* [0-9a-z], never under the name the history is stored under, and leaves
\* that name alone; a create answers such a key; what is stored under the
\* name of the history is never the text of a url; and a resolve is answered
\* only for keys the route pattern accepts, so never for the name of the
\* history and never with the stored history as the destination.
C28_ReservedName ==
  /\ [](/\ kv[HISTORY_KEY].kind \in { "null", "json" }
        /\ \A p \in Procs : pc[p] = "createKey.put" =>
              ShortCode(key[p]) /\ key[p] # HISTORY_KEY
        /\ last.resp.kind = "created" =>
              ShortCode(last.resp.key) /\ last.resp.key # HISTORY_KEY
        /\ last.req.op = "resolve" =>
              /\ Len(last.req.key) = 6 /\ last.req.key # HISTORY_KEY
              /\ last.resp.val.kind # "json"
              /\ last.resp.val # kv[HISTORY_KEY] \/ last.resp.val = Null)
  /\ [][\A p \in Procs :
          (pc[p] = "createKey.put" /\ pc'[p] = "create.item") =>
             kv'[HISTORY_KEY] = kv[HISTORY_KEY]]_vars

C28_Witness ==
  /\ last.req.op = "resolve" /\ last.resp.kind = "redirect"
  /\ last.resp.val.kind = "text"
  /\ last.req.key # FirstItem.key
  /\ kv[HISTORY_KEY].kind = "json" /\ Recorded(last.req.key)

====
